---- MODULE Spec2Model ----
(***************************************************************************)
(* Weather-by-CEP: service-a (Edge, handleCEP) forwards a postal code to   *)
(* service-b (Orchestration, handleWeather), which looks the code up at    *)
(* viaCEP, asks WeatherAPI for the temperature of the city and answers     *)
(* with the temperature in three scales.  Both services carry an           *)
(* OpenTelemetry trace context over every hop.                             *)
(*                                                                         *)
(* Four specifications:                                                   *)
(*   Spec          the request pipeline (handleCEP, handleWeather,         *)
(*                 lookupCEP, getWeather), one step per blocking call;     *)
(*   SpecValidate  validateCEP of both services on bounded strings;        *)
(*   SpecMain      main() of both services: tracer set-up, serving,        *)
(*                 interrupt, server shutdown, tracer shutdown;            *)
(*   SpecConc      the request pipeline with several requests in flight    *)
(*                 at once, on a reduced set of inputs.                    *)
(*                                                                         *)
(* Characters are Unicode code points.  Temperatures are fixed-point       *)
(* numbers in hundredths of a degree (the weather provider reports         *)
(* tenths), so that c*1.8 is the exact integer (c*18) \div 10.             *)
(***************************************************************************)
EXTENDS Integers, Sequences, FiniteSets, TLC

VARIABLES
    cfg,        \* process environment: WEATHER_API_KEY, SERVICE_B_URL
    inbound,    \* inbound[r]: the client's request r, or NoReq before it arrives
    apc,        \* apc[r]: position of handleCEP (service-a) for request r
    aOut,       \* aOut[r]: the response handleCEP wrote
    fwd,        \* fwd[r]: the request service-a sent to service-b
    bpc,        \* bpc[r]: position of handleWeather (service-b) for request r
    bIn,        \* bIn[r]: the request handleWeather received
    bOut,       \* bOut[r]: the response handleWeather wrote
    got,        \* got[r]: what the collaborators answered to request r
    calls,      \* calls[r]: the outbound calls issued for r, in order
    spans,      \* the spans started so far (both tracer providers)
    cep,        \* SpecValidate: the string under validation
    verdict,    \* SpecValidate: what each validateCEP returned
    proc        \* SpecMain: proc[s]: the state of the process of service s

vars == <<cfg, inbound, apc, aOut, fwd, bpc, bIn, bOut, got, calls, spans,
          cep, verdict, proc>>

reqVars == <<cfg, inbound, apc, aOut, fwd, bpc, bIn, bOut, got, calls, spans>>

----------------------------------------------------------------------------
(* Bounds *)

\* Requests handled concurrently by the two servers.
MaxRequests == 1

\* Longest string handed to validateCEP.
MaxCepLen == 9

\* In-flight handlers a server may have when the interrupt arrives.
MaxInflight == 2

Requests == 1..MaxRequests

----------------------------------------------------------------------------
(* validateCEP: regexp.MatchString(`^\d{8}$`, cep) *)

\* Code points: '0'..'9', '-', ' ', '\n', 'a', and U+0663 ARABIC-INDIC DIGIT THREE.
Digits == 48..57
OtherChars == {45, 32, 10, 97, 1635}

\* RE2's \d is the ASCII class [0-9].
IsDigitClass(c) == c \in Digits

\* \d{n} matched against s from position i: the position after the match, or 0.
RECURSIVE MatchRepeat(_, _, _)
MatchRepeat(s, i, n) ==
    IF n = 0 THEN i
    ELSE IF i <= Len(s) /\ IsDigitClass(s[i]) THEN MatchRepeat(s, i + 1, n - 1)
    ELSE 0

\* ^ matches at the beginning of the text only (no multi-line flag).
AtBeginText(s, i) == i = 1

\* $ matches at the end of the text only (no multi-line flag): not before a
\* final line feed.
AtEndText(s, i) == i = Len(s) + 1

\* A validator whose pattern lacks the end anchor (`^\d{8}`).
RegexpMatchNoEnd(s) ==
    \E start \in 1..(Len(s) + 1) :
        /\ AtBeginText(s, start)
        /\ MatchRepeat(s, start, 8) # 0

\* MatchString searches every start position for a match of ^\d{8}$.
RegexpMatchA(s) ==
    \E start \in 1..(Len(s) + 1) :
        /\ AtBeginText(s, start)
        /\ MatchRepeat(s, start, 8) # 0
        /\ AtEndText(s, MatchRepeat(s, start, 8))

RegexpMatchB(s) ==
    \E start \in 1..(Len(s) + 1) :
        /\ AtBeginText(s, start)
        /\ MatchRepeat(s, start, 8) # 0
        /\ AtEndText(s, MatchRepeat(s, start, 8))

\* service-a
validateCEP_A(s) == RegexpMatchA(s)

\* service-b
validateCEP_B(s) == RegexpMatchB(s)

----------------------------------------------------------------------------
(* Data of the request pipeline *)

\* "01310100", "123", "01310-100", "013101000", "true", "Rio", "Sao Paulo"
CepValid == <<48, 49, 51, 49, 48, 49, 48, 48>>
CepShort == <<49, 50, 51>>
CepHyphen == <<48, 49, 51, 49, 48, 45, 49, 48, 48>>
CepLong == <<48, 49, 51, 49, 48, 49, 48, 48, 48>>
StrTrue == <<116, 114, 117, 101>>
CityRio == <<82, 105, 111>>
CitySaoPaulo == <<83, 97, 111, 32, 80, 97, 117, 108, 111>>

\* A JSON member: absent, or a value of some JSON type.
JAbsent == [t |-> "absent"]
JBool == [t |-> "bool"]
JNumber(n) == [t |-> "number", v |-> n]
JString(s) == [t |-> "string", v |-> s]

\* HTTP bodies.
NoBody == [t |-> "none"]
NotJson == [t |-> "notjson"]
CepBody(j) == [t |-> "cep", cep |-> j]
ErrorResponse(m) == [t |-> "error", message |-> m]
WeatherResponse(city, c, f, k) ==
    [t |-> "weather", city |-> city, temp_C |-> c, temp_F |-> f, temp_K |-> k]

Response(status, body) == [status |-> status, body |-> body]
NoResp == Response(0, NoBody)

\* Trace contexts and span identifiers.
SpanId(r, svc, name) == [req |-> r, svc |-> svc, name |-> name]
NilId == SpanId(0, "", "")
NoCtx == [valid |-> FALSE, trace |-> NilId, span |-> NilId]
ClientCtx(r) ==
    [valid |-> TRUE, trace |-> SpanId(r, "client", "root"),
     span |-> SpanId(r, "client", "root")]

NoReq == [t |-> "none"]
Request(method, body, traceparent) ==
    [t |-> "request", method |-> method, body |-> body, traceparent |-> traceparent]

NoAnswer == [t |-> "none"]
TransportError == [t |-> "transport"]
Answer(status, readOk, body) ==
    [t |-> "response", status |-> status, readOk |-> readOk, body |-> body]

\* What a client may send to either service.
InboundRequests(r) ==
    {Request("GET", CepBody(JString(CepValid)), NoCtx),
     Request("POST", NoBody, NoCtx),
     Request("POST", NotJson, NoCtx),
     Request("POST", CepBody(JNumber(1310100)), NoCtx),
     Request("POST", CepBody(JAbsent), NoCtx),
     Request("POST", CepBody(JString(CepShort)), NoCtx),
     Request("POST", CepBody(JString(CepHyphen)), ClientCtx(r)),
     Request("POST", CepBody(JString(CepLong)), NoCtx),
     Request("POST", CepBody(JString(CepValid)), NoCtx),
     Request("POST", CepBody(JString(CepValid)), ClientCtx(r))}

\* What viaCEP may answer.
ViaCEPBody(erro, localidade) ==
    [t |-> "viacep", erro |-> erro, localidade |-> localidade]

LookupAnswers ==
    {TransportError,
     Answer(200, FALSE, ViaCEPBody(JAbsent, JString(CityRio))),
     Answer(400, TRUE, NotJson),
     Answer(200, TRUE, ViaCEPBody(JBool, JAbsent)),
     Answer(200, TRUE, ViaCEPBody(JString(StrTrue), JAbsent)),
     Answer(200, TRUE, ViaCEPBody(JString(StrTrue), JString(CityRio))),
     Answer(200, TRUE, ViaCEPBody(JAbsent, JString(<<>>))),
     Answer(500, TRUE, ViaCEPBody(JAbsent, JAbsent)),
     Answer(200, TRUE, ViaCEPBody(JAbsent, JString(CityRio))),
     Answer(200, TRUE, ViaCEPBody(JAbsent, JString(CitySaoPaulo)))}

\* What WeatherAPI may answer; temperatures in hundredths of a degree Celsius.
WeatherBody(tempc) == [t |-> "weatherapi", temp_c |-> tempc]

Temperatures == {-4000, -50, 0, 10, 2500, 2830, 10000}

WeatherAnswers ==
    {TransportError,
     Answer(200, FALSE, WeatherBody(JNumber(2500))),
     Answer(200, TRUE, NotJson),
     Answer(200, TRUE, WeatherBody(JString(StrTrue))),
     Answer(200, TRUE, WeatherBody(JAbsent)),
     Answer(401, TRUE, WeatherBody(JNumber(2500))),
     Answer(500, TRUE, NotJson)}
    \cup {Answer(200, TRUE, WeatherBody(JNumber(c))) : c \in Temperatures}

\* The process environment.
Environments ==
    {[apiKey |-> "key", serviceBURL |-> "http://service-b:8081"],
     [apiKey |-> "", serviceBURL |-> "http://service-b:8081"],
     [apiKey |-> "key", serviceBURL |-> "http://service b"]}

----------------------------------------------------------------------------
(* JSON, URL and trace helpers used by the handlers *)

\* json decoding of a member into a Go string field: a missing member leaves
\* the zero value "", a JSON string is stored, any other JSON type is an
\* UnmarshalTypeError.
UnmarshalString(j) ==
    CASE j.t = "absent" -> [err |-> FALSE, v |-> <<>>]
      [] j.t = "string" -> [err |-> FALSE, v |-> j.v]
      [] OTHER -> [err |-> TRUE, v |-> <<>>]

\* json decoding of a member into a Go float64 field.
UnmarshalFloat(j) ==
    CASE j.t = "absent" -> [err |-> FALSE, v |-> 0]
      [] j.t = "number" -> [err |-> FALSE, v |-> j.v]
      [] OTHER -> [err |-> TRUE, v |-> 0]

\* json.NewDecoder(r.Body).Decode(&req) into CEPRequest{CEP string}.
DecodeCEPRequest(body) ==
    IF body.t # "cep" THEN [err |-> TRUE, CEP |-> <<>>]
    ELSE [err |-> UnmarshalString(body.cep).err, CEP |-> UnmarshalString(body.cep).v]

\* json.Marshal(req) of a CEPRequest.
MarshalCEPRequest(req) == CepBody(JString(req.CEP))

\* url.QueryEscape on code points: letters, digits and -_.~ are kept, a space
\* becomes '+', anything else is percent-encoded (written -c for the
\* percent-encoding of c).
Unreserved == (48..57) \cup (65..90) \cup (97..122) \cup {45, 95, 46, 126}

QueryEscape(s) ==
    [i \in 1..Len(s) |->
        IF s[i] \in Unreserved THEN s[i]
        ELSE IF s[i] = 32 THEN 43
        ELSE 0 - s[i]]

\* What the weather provider reads back from the q parameter.
QueryUnescape(s) ==
    [i \in 1..Len(s) |->
        IF s[i] = 43 THEN 32
        ELSE IF s[i] < 0 THEN 0 - s[i]
        ELSE s[i]]

\* http.NewRequestWithContext fails when the URL does not parse (a space in
\* the host of SERVICE_B_URL).
ServiceBURLParses(env) == env.serviceBURL = "http://service-b:8081"

\* tracer.Start(ctx, name): a child of the span in ctx, or the root of a new
\* trace when ctx holds no span.
StartSpan(ctx, id) ==
    [id |-> id,
     trace |-> IF ctx.valid THEN ctx.trace ELSE id,
     parent |-> IF ctx.valid THEN ctx.span ELSE NilId]

\* The context that holds span sp.
ContextWithSpan(sp) == [valid |-> TRUE, trace |-> sp.trace, span |-> sp.id]

\* otelhttp.NewHandler: extract the caller's trace context from the request
\* headers (the propagator installed by initTracer) and start the server span.
ServerSpan(r, svc, req) == StartSpan(req.traceparent, SpanId(r, svc, "server"))

\* An outgoing request built without the handler's context (http.NewRequest):
\* its client span is the root of a new trace.
ClientSpanDetached(ctx, r, svc, name) == StartSpan(NoCtx, SpanId(r, svc, name))

\* otelhttp.NewTransport: start the client span in the request's context and
\* inject it into the outgoing headers.
ClientSpan(ctx, r, svc, name) == StartSpan(ctx, SpanId(r, svc, name))

Call(hop, traceparent, arg) == [hop |-> hop, traceparent |-> traceparent, arg |-> arg]

----------------------------------------------------------------------------
(* service-a: handleCEP *)

\* What one stage of a handler leaves behind: the response if the handler
\* returned, the spans it started, the outbound calls it issued.
Returned(resp, started) ==
    [done |-> TRUE, out |-> resp, spans |-> started, calls |-> <<>>]
Blocked(started, issued) ==
    [done |-> FALSE, out |-> NoResp, spans |-> started, calls |-> issued]

\* A handler that lacks the method check.
MethodAllowedAlways(req) == TRUE

\* r.Method != http.MethodPost
MethodAllowedA(req) == req.method = "POST"

\* handleCEP up to client.Do(httpReq).
handleCEP(env, r, req) ==
    LET server == ServerSpan(r, "a", req)
        span == StartSpan(ContextWithSpan(server), SpanId(r, "a", "handle-cep-request"))
        dec == DecodeCEPRequest(req.body)
        validateSpan == StartSpan(ContextWithSpan(span), SpanId(r, "a", "validate-cep"))
        forwardSpan ==
            StartSpan(ContextWithSpan(span), SpanId(r, "a", "forward-to-service-b"))
        client == ClientSpan(ContextWithSpan(forwardSpan), r, "a", "http-client")
    IN  IF ~MethodAllowedA(req)
        THEN Returned(Response(405, NoBody), {server, span})
        ELSE IF dec.err
        THEN Returned(Response(422, ErrorResponse("invalid zipcode")), {server, span})
        ELSE IF ~validateCEP_A(dec.CEP)
        THEN Returned(Response(422, ErrorResponse("invalid zipcode")),
                      {server, span, validateSpan})
        ELSE IF ~ServiceBURLParses(env)
        THEN Returned(Response(500, ErrorResponse("internal error")),
                      {server, span, validateSpan, forwardSpan})
        ELSE Blocked({server, span, validateSpan, forwardSpan, client},
                     <<Call("a->b", ContextWithSpan(client), MarshalCEPRequest(dec))>>)

\* io.ReadAll(resp.Body) with its error dropped: the bytes read before the
\* failure, which are fewer than the body unless the body is empty.
ReadAllIgnoringError(ans) ==
    IF ans.readOk \/ ans.body = NoBody THEN ans.body
    ELSE [t |-> "partial", of |-> ans.body]

\* A handleCEP that sends the request again when client.Do fails.
handleCEPResponseRetrying(ans, sent) ==
    IF ans.t = "transport"
    THEN Blocked({}, <<Call("a->b", sent.traceparent, sent.body)>>)
    ELSE Returned(Response(ans.status, ReadAllIgnoringError(ans)), {})

\* handleCEP from the return of client.Do(httpReq) on.
handleCEPResponse(ans, sent) ==
    IF ans.t = "transport"
    THEN Returned(Response(503, ErrorResponse("service unavailable")), {})
    ELSE Returned(Response(ans.status, ReadAllIgnoringError(ans)), {})

----------------------------------------------------------------------------
(* service-b: lookupCEP, getWeather, conversions, handleWeather *)

\* A lookupCEP that drops the error of json.Unmarshal: an unparsable body
\* leaves the zero ViaCEPResponse.
lookupCEPUnmarshalUnchecked(ans) ==
    LET failed == [err |-> TRUE, found |-> FALSE, Localidade |-> <<>>]
        absent == [err |-> FALSE, found |-> FALSE, Localidade |-> <<>>]
        erro == UnmarshalString(ans.body.erro)
        localidade == UnmarshalString(ans.body.localidade)
    IN  IF ans.t = "transport" THEN failed
        ELSE IF ~ans.readOk THEN failed
        ELSE IF ans.body.t # "viacep" THEN absent
        ELSE IF erro.v = StrTrue \/ localidade.v = <<>> THEN absent
        ELSE [err |-> FALSE, found |-> TRUE, Localidade |-> localidade.v]

\* A lookupCEP that only looks at the locality, not at the erro flag.
lookupCEPFlagUnchecked(ans) ==
    LET failed == [err |-> TRUE, found |-> FALSE, Localidade |-> <<>>]
        erro == UnmarshalString(ans.body.erro)
        localidade == UnmarshalString(ans.body.localidade)
    IN  IF ans.t = "transport" THEN failed
        ELSE IF ~ans.readOk THEN failed
        ELSE IF ans.body.t # "viacep" THEN failed
        ELSE IF erro.err \/ localidade.err THEN failed
        ELSE IF localidade.v = <<>>
        THEN [err |-> FALSE, found |-> FALSE, Localidade |-> <<>>]
        ELSE [err |-> FALSE, found |-> TRUE, Localidade |-> localidade.v]

\* lookupCEP from the return of client.Do(req) on: (nil, err), (nil, nil) or
\* (&viaCEP, nil).
lookupCEP(ans) ==
    LET failed == [err |-> TRUE, found |-> FALSE, Localidade |-> <<>>]
        erro == UnmarshalString(ans.body.erro)
        localidade == UnmarshalString(ans.body.localidade)
    IN  IF ans.t = "transport" THEN failed
        ELSE IF ~ans.readOk THEN failed
        ELSE IF ans.body.t # "viacep" THEN failed
        ELSE IF erro.err \/ localidade.err THEN failed
        ELSE IF erro.v = StrTrue \/ localidade.v = <<>>
        THEN [err |-> FALSE, found |-> FALSE, Localidade |-> <<>>]
        ELSE [err |-> FALSE, found |-> TRUE, Localidade |-> localidade.v]

\* A getWeather that does not look at the response status.
getWeatherStatusUnchecked(ans) ==
    LET failed == [err |-> TRUE, tempC |-> 0]
    IN  IF ans.t = "transport" THEN failed
        ELSE IF ~ans.readOk THEN failed
        ELSE IF ans.body.t # "weatherapi" THEN failed
        ELSE IF UnmarshalFloat(ans.body.temp_c).err THEN failed
        ELSE [err |-> FALSE, tempC |-> UnmarshalFloat(ans.body.temp_c).v]

\* getWeather from the return of client.Do(req) on: (0, err) or (temp_c, nil).
getWeather(ans) ==
    LET failed == [err |-> TRUE, tempC |-> 0]
    IN  IF ans.t = "transport" THEN failed
        ELSE IF ans.status # 200 THEN failed
        ELSE IF ~ans.readOk THEN failed
        ELSE IF ans.body.t # "weatherapi" THEN failed
        ELSE IF UnmarshalFloat(ans.body.temp_c).err THEN failed
        ELSE [err |-> FALSE, tempC |-> UnmarshalFloat(ans.body.temp_c).v]

\* c*1.8 + 32, in hundredths of a degree.
celsiusToFahrenheit(c) == (c * 18) \div 10 + 32 * 100

\* A conversion with the physical offset 273.15.
celsiusToKelvinPrecise(c) == c + 27315

\* c + 273, in hundredths of a degree.
celsiusToKelvin(c) == c + 273 * 100

\* The context handleWeather works in: the span "handle-weather-request"
\* under the server span of the request.
HandlerSpanB(r, req) ==
    StartSpan(ContextWithSpan(ServerSpan(r, "b", req)),
              SpanId(r, "b", "handle-weather-request"))

\* r.Method != http.MethodPost
MethodAllowedB(req) == req.method = "POST"

\* handleWeather up to client.Do(req) in lookupCEP.
handleWeather(env, r, req) ==
    LET server == ServerSpan(r, "b", req)
        span == HandlerSpanB(r, req)
        dec == DecodeCEPRequest(req.body)
        lookupSpan == StartSpan(ContextWithSpan(span), SpanId(r, "b", "lookup-cep-viacep"))
        client == ClientSpan(ContextWithSpan(lookupSpan), r, "b", "http-client-viacep")
    IN  IF ~MethodAllowedB(req)
        THEN Returned(Response(405, NoBody), {server, span})
        ELSE IF dec.err
        THEN Returned(Response(422, ErrorResponse("invalid zipcode")), {server, span})
        ELSE IF ~validateCEP_B(dec.CEP)
        THEN Returned(Response(422, ErrorResponse("invalid zipcode")), {server, span})
        ELSE Blocked({server, span, lookupSpan, client},
                     <<Call("b->viacep", ContextWithSpan(client), dec.CEP)>>)

\* handleWeather from the return of lookupCEP up to client.Do(req) in
\* getWeather.
handleWeatherAfterLookup(env, r, req, ans) ==
    LET viaCEP == lookupCEP(ans)
        span == HandlerSpanB(r, req)
        weatherSpan == StartSpan(ContextWithSpan(span), SpanId(r, "b", "get-weather-api"))
        client == ClientSpan(ContextWithSpan(weatherSpan), r, "b", "http-client-weatherapi")
    IN  IF viaCEP.err
        THEN Returned(Response(500, ErrorResponse("internal error")), {})
        ELSE IF ~viaCEP.found
        THEN Returned(Response(404, ErrorResponse("can not find zipcode")), {})
        ELSE IF env.apiKey = ""
        THEN Returned(Response(500, ErrorResponse("failed to get weather")), {weatherSpan})
        ELSE Blocked({weatherSpan, client},
                     <<Call("b->weatherapi", ContextWithSpan(client),
                            [key |-> env.apiKey, q |-> QueryEscape(viaCEP.Localidade)])>>)

\* handleWeather from the return of getWeather on.
handleWeatherAfterWeather(lookupAns, ans) ==
    LET viaCEP == lookupCEP(lookupAns)
        weather == getWeather(ans)
    IN  IF weather.err
        THEN Returned(Response(500, ErrorResponse("failed to get weather")), {})
        ELSE Returned(Response(200, WeatherResponse(viaCEP.Localidade, weather.tempC,
                                    celsiusToFahrenheit(weather.tempC),
                                    celsiusToKelvin(weather.tempC))), {})

----------------------------------------------------------------------------
(* The request pipeline *)

Inbound(to, req) == [to |-> to, req |-> req]
NoInbound == Inbound("none", NoReq)
NoAnswers == [lookup |-> NoAnswer, weather |-> NoAnswer, relay |-> NoAnswer]

\* A process of either service, between main's call of initTracer and its exit.
Process(pc, srv, tpInit, tpShutdown, inflight, signalled, exit) ==
    [pc |-> pc, srv |-> srv, tpInit |-> tpInit, tpShutdown |-> tpShutdown,
     inflight |-> inflight, signalled |-> signalled, exit |-> exit]

Services == {"a", "b"}

\* Both processes up and serving, as the request pipeline assumes.
Serving == Process("waiting", "listening", 1, 0, 0, FALSE, "")

Init ==
    /\ cfg \in Environments
    /\ inbound = [r \in Requests |-> NoInbound]
    /\ apc = [r \in Requests |-> "idle"]
    /\ aOut = [r \in Requests |-> NoResp]
    /\ fwd = [r \in Requests |-> NoReq]
    /\ bpc = [r \in Requests |-> "idle"]
    /\ bIn = [r \in Requests |-> NoReq]
    /\ bOut = [r \in Requests |-> NoResp]
    /\ got = [r \in Requests |-> NoAnswers]
    /\ calls = [r \in Requests |-> <<>>]
    /\ spans = {}
    /\ cep = <<>>
    /\ verdict = [a |-> FALSE, b |-> FALSE, done |-> FALSE]
    /\ proc = [s \in Services |-> Serving]

\* A client sends request r to service-a (POST /cep): handleCEP runs up to
\* its response or up to its call of service-b.
ClientCallsEdge(r) ==
    /\ inbound[r] = NoInbound
    /\ \E req \in InboundRequests(r) :
        LET res == handleCEP(cfg, r, req)
        IN  /\ inbound' = [inbound EXCEPT ![r] = Inbound("a", req)]
            /\ apc' = [apc EXCEPT ![r] = IF res.done THEN "done" ELSE "forwarding"]
            /\ aOut' = [aOut EXCEPT ![r] = res.out]
            /\ fwd' = [fwd EXCEPT ![r] =
                        IF res.done THEN NoReq
                        ELSE Request("POST", res.calls[1].arg, res.calls[1].traceparent)]
            /\ calls' = [calls EXCEPT ![r] = @ \o res.calls]
            /\ spans' = spans \cup res.spans
    /\ UNCHANGED <<cfg, bpc, bIn, bOut, got, cep, verdict, proc>>

\* A handleWeather that decodes into a package-level CEPRequest: it goes on
\* with what another handler decoded there, if any did.
ReceiveSharedRequest(r, req) ==
    LET others == {q \in DOMAIN bIn : q # r /\ bIn[q] # NoReq}
        shared == IF others = {} THEN req ELSE bIn[CHOOSE q \in others : TRUE]
        res == handleWeather(cfg, r, shared)
    IN  /\ bIn' = [bIn EXCEPT ![r] = req]
        /\ bpc' = [bpc EXCEPT ![r] = IF res.done THEN "done" ELSE "lookup"]
        /\ bOut' = [bOut EXCEPT ![r] = res.out]
        /\ calls' = [calls EXCEPT ![r] = @ \o res.calls]
        /\ spans' = spans \cup res.spans

\* The request handleWeather receives runs up to its response or up to the
\* call of viaCEP.
Receive(r, req) ==
    LET res == handleWeather(cfg, r, req)
    IN  /\ bIn' = [bIn EXCEPT ![r] = req]
        /\ bpc' = [bpc EXCEPT ![r] = IF res.done THEN "done" ELSE "lookup"]
        /\ bOut' = [bOut EXCEPT ![r] = res.out]
        /\ calls' = [calls EXCEPT ![r] = @ \o res.calls]
        /\ spans' = spans \cup res.spans

\* A client sends request r to service-b directly (POST /weather).
ClientCallsOrchestration(r) ==
    /\ inbound[r] = NoInbound
    /\ \E req \in InboundRequests(r) :
        /\ inbound' = [inbound EXCEPT ![r] = Inbound("b", req)]
        /\ Receive(r, req)
    /\ UNCHANGED <<cfg, apc, aOut, fwd, got, cep, verdict, proc>>

\* The request service-a forwarded reaches service-b.
OrchestrationReceives(r) ==
    /\ fwd[r] # NoReq
    /\ bpc[r] = "idle"
    /\ Receive(r, fwd[r])
    /\ UNCHANGED <<cfg, inbound, apc, aOut, fwd, got, cep, verdict, proc>>

\* client.Do in lookupCEP returns: handleWeather runs on to its response or to
\* the call of WeatherAPI.
LookupReturns(r) ==
    /\ bpc[r] = "lookup"
    /\ \E ans \in LookupAnswers :
        LET res == handleWeatherAfterLookup(cfg, r, bIn[r], ans)
        IN  /\ got' = [got EXCEPT ![r].lookup = ans]
            /\ bpc' = [bpc EXCEPT ![r] = IF res.done THEN "done" ELSE "weather"]
            /\ bOut' = [bOut EXCEPT ![r] = res.out]
            /\ calls' = [calls EXCEPT ![r] = @ \o res.calls]
            /\ spans' = spans \cup res.spans
    /\ UNCHANGED <<cfg, inbound, apc, aOut, fwd, bIn, cep, verdict, proc>>

\* client.Do in getWeather returns: handleWeather runs on to its response.
WeatherReturns(r) ==
    /\ bpc[r] = "weather"
    /\ \E ans \in WeatherAnswers :
        LET res == handleWeatherAfterWeather(got[r].lookup, ans)
        IN  /\ got' = [got EXCEPT ![r].weather = ans]
            /\ bpc' = [bpc EXCEPT ![r] = IF res.done THEN "done" ELSE "weather"]
            /\ bOut' = [bOut EXCEPT ![r] = res.out]
            /\ calls' = [calls EXCEPT ![r] = @ \o res.calls]
            /\ spans' = spans \cup res.spans
    /\ UNCHANGED <<cfg, inbound, apc, aOut, fwd, bIn, cep, verdict, proc>>

\* What client.Do in handleCEP may return: a transport error at any time
\* (connection refused, the 30 s timeout), or the response of service-b once
\* it is written, its body read completely or with a read error.
ForwardAnswers(r) ==
    {TransportError}
    \cup (IF bpc[r] = "done"
          THEN {Answer(bOut[r].status, ok, bOut[r].body) : ok \in BOOLEAN}
          ELSE {})

\* client.Do in handleCEP returns: handleCEP runs on to its response.
ForwardReturns(r) ==
    /\ apc[r] = "forwarding"
    /\ \E ans \in ForwardAnswers(r) :
        LET res == handleCEPResponse(ans, fwd[r])
        IN  /\ got' = [got EXCEPT ![r].relay = ans]
            /\ apc' = [apc EXCEPT ![r] = IF res.done THEN "done" ELSE "forwarding"]
            /\ aOut' = [aOut EXCEPT ![r] = res.out]
            /\ calls' = [calls EXCEPT ![r] = @ \o res.calls]
            /\ spans' = spans \cup res.spans
    /\ UNCHANGED <<cfg, inbound, fwd, bpc, bIn, bOut, cep, verdict, proc>>

Next ==
    \E r \in Requests :
        \/ ClientCallsEdge(r)
        \/ ClientCallsOrchestration(r)
        \/ OrchestrationReceives(r)
        \/ LookupReturns(r)
        \/ WeatherReturns(r)
        \/ ForwardReturns(r)

Spec == Init /\ [][Next]_vars

----------------------------------------------------------------------------
(* validateCEP on bounded strings *)

\* n digits following one of three patterns ("000...", "369...", "987...").
DigitString(n, k) == [i \in 1..n |-> 48 + ((i * k) % 10)]

\* Digit strings of every length up to MaxCepLen, as they are or with one
\* position replaced by a character that is no ASCII digit.
CepInputs ==
    {DigitString(n, k) : n \in 0..MaxCepLen, k \in {0, 3, 9}}
    \cup UNION {{[DigitString(n, k) EXCEPT ![p] = c] : p \in 1..n, c \in OtherChars} :
                    n \in 1..MaxCepLen, k \in {0, 3, 9}}

PipelineIdle ==
    /\ cfg \in {e \in Environments : e.apiKey = "key" /\ ServiceBURLParses(e)}
    /\ inbound = [r \in Requests |-> NoInbound]
    /\ apc = [r \in Requests |-> "idle"]
    /\ aOut = [r \in Requests |-> NoResp]
    /\ fwd = [r \in Requests |-> NoReq]
    /\ bpc = [r \in Requests |-> "idle"]
    /\ bIn = [r \in Requests |-> NoReq]
    /\ bOut = [r \in Requests |-> NoResp]
    /\ got = [r \in Requests |-> NoAnswers]
    /\ calls = [r \in Requests |-> <<>>]
    /\ spans = {}

InitValidate ==
    /\ PipelineIdle
    /\ cep \in CepInputs
    /\ verdict = [a |-> FALSE, b |-> FALSE, done |-> FALSE]
    /\ proc = [s \in Services |-> Serving]

\* Both services validate the string.
Validate ==
    /\ ~verdict.done
    /\ verdict' = [a |-> validateCEP_A(cep), b |-> validateCEP_B(cep), done |-> TRUE]
    /\ UNCHANGED <<reqVars, cep, proc>>

NextValidate == Validate

SpecValidate == InitValidate /\ [][NextValidate]_vars

----------------------------------------------------------------------------
(* main() of both services *)

InitMain ==
    /\ PipelineIdle
    /\ cep = <<>>
    /\ verdict = [a |-> FALSE, b |-> FALSE, done |-> FALSE]
    /\ proc = [s \in Services |-> Process("start", "new", 0, 0, 0, FALSE, "")]

\* log.Fatalf: os.Exit(1) at once; deferred calls do not run and the handlers
\* in flight die with the process.
Fatalf(p) == [p EXCEPT !.pc = "exited", !.exit = "fatal", !.inflight = 0]

\* tp, err := initTracer(): the provider is created, or main ends in log.Fatalf.
InitTracer(s) ==
    /\ proc[s].pc = "start"
    /\ \/ proc' = [proc EXCEPT ![s].tpInit = @ + 1, ![s].pc = "waiting"]
       \/ proc' = [proc EXCEPT ![s] = Fatalf(@)]
    /\ UNCHANGED <<reqVars, cep, verdict>>

\* The goroutine's server.ListenAndServe(): the server listens, or the
\* goroutine ends the process with log.Fatalf (the port is taken).  After
\* server.Shutdown it returns ErrServerClosed and the goroutine just ends.
ListenAndServe(s) ==
    /\ proc[s].pc \in {"waiting", "shutdown"}
    /\ proc[s].srv = "new"
    /\ \/ /\ proc[s].pc = "waiting"
          /\ proc' = [proc EXCEPT ![s].srv = "listening"]
       \/ /\ proc[s].pc = "waiting"
          /\ proc' = [proc EXCEPT ![s] = Fatalf(@)]
       \/ /\ proc[s].pc = "shutdown"
          /\ proc' = [proc EXCEPT ![s].srv = "closed"]
    /\ UNCHANGED <<reqVars, cep, verdict>>

\* The server accepts a request and starts its handler.
Accept(s) ==
    /\ proc[s].pc = "waiting"
    /\ proc[s].srv = "listening"
    /\ proc[s].inflight < MaxInflight
    /\ proc' = [proc EXCEPT ![s].inflight = @ + 1]
    /\ UNCHANGED <<reqVars, cep, verdict>>

\* A handler returns.
HandlerReturns(s) ==
    /\ proc[s].pc \in {"waiting", "shutdown"}
    /\ proc[s].inflight > 0
    /\ proc' = [proc EXCEPT ![s].inflight = @ - 1]
    /\ UNCHANGED <<reqVars, cep, verdict>>

\* <-quit: the interrupt arrives and main calls server.Shutdown(ctx) with a
\* 10 s deadline; the listeners close.
Interrupt(s) ==
    /\ proc[s].pc = "waiting"
    /\ proc' = [proc EXCEPT ![s].pc = "shutdown", ![s].signalled = TRUE,
                            ![s].srv = IF @ = "listening" THEN "closed" ELSE @]
    /\ UNCHANGED <<reqVars, cep, verdict>>

\* server.Shutdown returns nil: no handler is in flight any more.
ShutdownReturns(s) ==
    /\ proc[s].pc = "shutdown"
    /\ proc[s].inflight = 0
    /\ proc' = [proc EXCEPT ![s].pc = "deferred"]
    /\ UNCHANGED <<reqVars, cep, verdict>>

\* server.Shutdown returns context.DeadlineExceeded: handlers are still in
\* flight after 10 s, and main ends in log.Fatalf.
ShutdownTimesOut(s) ==
    /\ proc[s].pc = "shutdown"
    /\ proc[s].inflight > 0
    /\ proc' = [proc EXCEPT ![s] = Fatalf(@)]
    /\ UNCHANGED <<reqVars, cep, verdict>>

\* main returns: the deferred cancel() and tp.Shutdown run, the process exits.
DeferredTracerShutdown(s) ==
    /\ proc[s].pc = "deferred"
    /\ proc' = [proc EXCEPT ![s].tpShutdown = @ + 1, ![s].pc = "exited",
                            ![s].exit = "returned"]
    /\ UNCHANGED <<reqVars, cep, verdict>>

NextMain ==
    \E s \in Services :
        \/ InitTracer(s)
        \/ ListenAndServe(s)
        \/ Accept(s)
        \/ HandlerReturns(s)
        \/ Interrupt(s)
        \/ ShutdownReturns(s)
        \/ ShutdownTimesOut(s)
        \/ DeferredTracerShutdown(s)

SpecMain == InitMain /\ [][NextMain]_vars

----------------------------------------------------------------------------
(* What the properties speak of, read off the recorded requests and answers *)

\* Exactly eight characters, each an ASCII digit.
IsEightDigits(s) == Len(s) = 8 /\ \A i \in 1..Len(s) : s[i] >= 48 /\ s[i] <= 57

\* The request body is a JSON object whose cep is a string of eight digits.
CarriesValidCep(req) ==
    /\ req.body.t = "cep"
    /\ req.body.cep.t = "string"
    /\ IsEightDigits(req.body.cep.v)

IsStringOrAbsent(j) == j.t \in {"absent", "string"}

\* The lookup failed: no response, or one that cannot be read or parsed.
LookupHasFailed(ans) ==
    \/ ans.t = "transport"
    \/ /\ ans.t = "response"
       /\ \/ ~ans.readOk
          \/ ans.body.t # "viacep"
          \/ ~IsStringOrAbsent(ans.body.erro)
          \/ ~IsStringOrAbsent(ans.body.localidade)

\* The lookup answered, and the answer says not found: the erro flag is
\* "true" or the locality is missing or empty.
LookupSaysNotFound(ans) ==
    /\ ans.t = "response"
    /\ ~LookupHasFailed(ans)
    /\ \/ ans.body.erro = JString(StrTrue)
       \/ ans.body.localidade = JAbsent
       \/ ans.body.localidade = JString(<<>>)

\* The lookup answered with a city.
LookupSaysFound(ans) ==
    /\ ans.t = "response"
    /\ ~LookupHasFailed(ans)
    /\ ~LookupSaysNotFound(ans)

\* The weather call failed: no response, a status other than 200, or a body
\* that cannot be read or parsed.
WeatherHasFailed(ans) ==
    \/ ans.t = "transport"
    \/ /\ ans.t = "response"
       /\ \/ ans.status # 200
          \/ ~ans.readOk
          \/ ans.body.t # "weatherapi"
          \/ ans.body.temp_c.t \notin {"absent", "number"}

\* The Celsius value of a successful weather answer (0 when the member is
\* missing).
WeatherCelsius(ans) == IF ans.body.temp_c.t = "number" THEN ans.body.temp_c.v ELSE 0

\* The positions in calls[r] of the calls over one hop.
CallsOver(r, hop) == {i \in 1..Len(calls[r]) : calls[r][i].hop = hop}

Hops == {"a->b", "b->viacep", "b->weatherapi"}

\* The trace the inbound request r belongs to: the caller's, or a new one
\* rooted at the server span of the service the client called.
RequestTrace(r) ==
    IF inbound[r].req.traceparent.valid THEN inbound[r].req.traceparent.trace
    ELSE SpanId(r, inbound[r].to, "server")

\* Span id descends from span anc along the parent links of the started spans.
RECURSIVE DescendsFrom(_, _, _)
DescendsFrom(id, anc, fuel) ==
    IF id = anc THEN TRUE
    ELSE IF fuel = 0 \/ ~(\E sp \in spans : sp.id = id) THEN FALSE
    ELSE DescendsFrom((CHOOSE sp \in spans : sp.id = id).parent, anc, fuel - 1)

----------------------------------------------------------------------------
(* Properties of the request pipeline (Spec) *)

\* C1: whenever handleCEP's call of service-b returned a response, the status
\* and the body handleCEP writes are the status and the complete body
\* service-b wrote.
C1_EdgeRelaysVerbatim ==
    \A r \in Requests :
        (apc[r] = "done" /\ got[r].relay.t = "response") => aOut[r] = bOut[r]

\* C2: in handleWeather a failed lookup (transport failure, timeout,
\* unreadable or unparsable response) yields 500 "internal error", never 404;
\* a lookup that answers not found (erro flag or empty locality) yields 404
\* "can not find zipcode", never 500.
C2_LookupFailureIsNotNotFound ==
    \A r \in Requests :
        (bpc[r] = "done" /\ got[r].lookup # NoAnswer) =>
            /\ LookupHasFailed(got[r].lookup) =>
                    bOut[r] = Response(500, ErrorResponse("internal error"))
            /\ LookupSaysNotFound(got[r].lookup) =>
                    bOut[r] = Response(404, ErrorResponse("can not find zipcode"))
            /\ bOut[r].status = 404 => ~LookupHasFailed(got[r].lookup)
            /\ bOut[r] = Response(500, ErrorResponse("internal error")) =>
                    ~LookupSaysNotFound(got[r].lookup)

\* C2 witness: viaCEP answered 200 with erro "true" although a locality is
\* present, and handleWeather answered 404.
C2_Witness ==
    \E r \in Requests :
        /\ bpc[r] = "done"
        /\ got[r].lookup = Answer(200, TRUE, ViaCEPBody(JString(StrTrue), JString(CityRio)))
        /\ bOut[r].status = 404

\* C3: WeatherAPI is called only after the lookup of the same request has
\* returned a found city, and with that city; a request that fails
\* validation, whose lookup fails or answers not found ends without a
\* weather call.
C3_WeatherOnlyAfterFoundLookup ==
    \A r \in Requests :
        /\ \A i \in CallsOver(r, "b->weatherapi") :
            /\ \E j \in CallsOver(r, "b->viacep") : j < i
            /\ LookupSaysFound(got[r].lookup)
            /\ QueryUnescape(calls[r][i].arg.q) = got[r].lookup.body.localidade.v
        /\ (bpc[r] = "done" /\ ~LookupSaysFound(got[r].lookup)) =>
                CallsOver(r, "b->weatherapi") = {}
        /\ (bpc[r] = "done" /\ ~CarriesValidCep(bIn[r])) =>
                CallsOver(r, "b->viacep") = {} /\ CallsOver(r, "b->weatherapi") = {}

\* C3 witness: the weather call for "Sao Paulo" is out, after the lookup.
C3_Witness ==
    \E r \in Requests :
        /\ bpc[r] = "weather"
        /\ got[r].lookup.t = "response"
        /\ got[r].lookup.body.localidade = JString(CitySaoPaulo)
        /\ CallsOver(r, "b->weatherapi") # {}

\* C4: in both handlers a request that is not a POST is answered 405 without
\* a body, a POST whose body does not parse or whose postal code is not eight
\* digits is answered 422 "invalid zipcode", and in all these cases the
\* service makes no outbound call.
C4_RejectedWithoutOutboundCall ==
    \A r \in Requests :
        /\ (inbound[r].to = "a" /\ inbound[r].req.method # "POST") =>
                /\ apc[r] = "done"
                /\ aOut[r] = Response(405, NoBody)
                /\ calls[r] = <<>>
        /\ (inbound[r].to = "a" /\ inbound[r].req.method = "POST"
                /\ ~CarriesValidCep(inbound[r].req)) =>
                /\ apc[r] = "done"
                /\ aOut[r] = Response(422, ErrorResponse("invalid zipcode"))
                /\ calls[r] = <<>>
        /\ (bIn[r] # NoReq /\ bIn[r].method # "POST") =>
                /\ bpc[r] = "done"
                /\ bOut[r] = Response(405, NoBody)
                /\ CallsOver(r, "b->viacep") \cup CallsOver(r, "b->weatherapi") = {}
        /\ (bIn[r] # NoReq /\ bIn[r].method = "POST" /\ ~CarriesValidCep(bIn[r])) =>
                /\ bpc[r] = "done"
                /\ bOut[r] = Response(422, ErrorResponse("invalid zipcode"))
                /\ CallsOver(r, "b->viacep") \cup CallsOver(r, "b->weatherapi") = {}

\* C4 witness: service-a got a GET, which carried a valid body, and answered
\* 405.
C4_Witness ==
    \E r \in Requests :
        /\ inbound[r].to = "a"
        /\ inbound[r].req.method = "GET"
        /\ CarriesValidCep(inbound[r].req)
        /\ aOut[r].status = 405

\* C5: after a successful lookup every failure of the weather step (no
\* credential and then no call at all, transport failure or timeout, a status
\* other than 200 even with a body, an unparsable body) yields 500 "failed to
\* get weather"; 200 is answered only when the lookup found a city and the
\* weather call succeeded.
C5_WeatherFailureIs500 ==
    \A r \in Requests :
        /\ (bpc[r] = "done" /\ LookupSaysFound(got[r].lookup)
                /\ (cfg.apiKey = "" \/ WeatherHasFailed(got[r].weather))) =>
                bOut[r] = Response(500, ErrorResponse("failed to get weather"))
        /\ (LookupSaysFound(got[r].lookup) /\ cfg.apiKey = "") =>
                CallsOver(r, "b->weatherapi") = {}
        /\ bOut[r].status = 200 =>
                /\ LookupSaysFound(got[r].lookup)
                /\ got[r].weather.t = "response"
                /\ ~WeatherHasFailed(got[r].weather)

\* C5 witness: WeatherAPI answered 401 with a parsable body, and handleWeather
\* answered 500.
C5_Witness ==
    \E r \in Requests :
        /\ bpc[r] = "done"
        /\ got[r].weather = Answer(401, TRUE, WeatherBody(JNumber(2500)))
        /\ bOut[r].status = 500

\* C6: every hop is attempted at most once per request; a failed attempt ends
\* the handler, and a transport failure of service-a's call is answered 503
\* "service unavailable" without a second attempt.
C6_NoRetries ==
    \A r \in Requests :
        /\ \A hop \in Hops : Cardinality(CallsOver(r, hop)) <= 1
        /\ got[r].relay.t = "transport" =>
                /\ apc[r] = "done"
                /\ aOut[r] = Response(503, ErrorResponse("service unavailable"))
                /\ Cardinality(CallsOver(r, "a->b")) = 1
        /\ LookupHasFailed(got[r].lookup) => bpc[r] = "done"
        /\ WeatherHasFailed(got[r].weather) => bpc[r] = "done"

\* C6 witness: service-a's call failed in transport and 503 was answered.
C6_Witness ==
    \E r \in Requests :
        /\ got[r].relay.t = "transport"
        /\ aOut[r].status = 503

\* C7: every outbound call carries the trace context of the inbound request
\* it serves: all spans and all calls of one request share one trace, and
\* the spans of service-b descend from the span of service-a that forwarded
\* the request.
C7_TraceContextPropagated ==
    \A r \in Requests :
        /\ \A i \in 1..Len(calls[r]) :
            /\ calls[r][i].traceparent.valid
            /\ calls[r][i].traceparent.trace = RequestTrace(r)
            /\ \E sp \in spans : sp.id = calls[r][i].traceparent.span /\ sp.id.req = r
        /\ \A sp \in spans : sp.id.req = r => sp.trace = RequestTrace(r)
        /\ inbound[r].to = "a" =>
                \A sp \in spans :
                    (sp.id.req = r /\ sp.id.svc = "b") =>
                        DescendsFrom(sp.id, SpanId(r, "a", "forward-to-service-b"),
                                     Cardinality(spans))

\* C7 witness: a request with a caller's trace context went through service-a
\* and service-b up to the weather call.
C7_Witness ==
    \E r \in Requests :
        /\ inbound[r].to = "a"
        /\ inbound[r].req.traceparent.valid
        /\ \A hop \in Hops : CallsOver(r, hop) # {}

\* C10: on success handleWeather answers 200 with the locality of the lookup,
\* the Celsius value of WeatherAPI, temp_F = temp_C * 1.8 + 32 and
\* temp_K = temp_C + 273; F(0) = 32, F(100) = 212, K(0) = 273, and 25 degrees
\* give 77 and 298.
C10_SuccessBody ==
    /\ celsiusToFahrenheit(0) = 3200
    /\ celsiusToFahrenheit(10000) = 21200
    /\ celsiusToKelvin(0) = 27300
    /\ celsiusToFahrenheit(2500) = 7700
    /\ celsiusToKelvin(2500) = 29800
    /\ \A r \in Requests :
        bOut[r].status = 200 =>
            /\ bOut[r].body.t = "weather"
            /\ bOut[r].body.city = got[r].lookup.body.localidade.v
            /\ bOut[r].body.temp_C = WeatherCelsius(got[r].weather)
            /\ bOut[r].body.temp_F * 10 = bOut[r].body.temp_C * 18 + 32000
            /\ bOut[r].body.temp_K = bOut[r].body.temp_C + 27300

\* C10 witness: "Sao Paulo" at 25 degrees was answered with 200.
C10_Witness ==
    \E r \in Requests :
        /\ bOut[r].status = 200
        /\ bOut[r].body.city = CitySaoPaulo
        /\ bOut[r].body.temp_C = 2500
        /\ bOut[r].body.temp_F = 7700
        /\ bOut[r].body.temp_K = 29800

----------------------------------------------------------------------------
(* Properties of validateCEP (SpecValidate) *)

\* C9: validateCEP returns true if and only if its argument is exactly eight
\* characters long and every character is an ASCII digit, and the validators
\* of service-a and service-b agree on every input.
C9_ValidatorContract ==
    verdict.done =>
        /\ verdict.a = IsEightDigits(cep)
        /\ verdict.b = IsEightDigits(cep)
        /\ verdict.a = verdict.b

\* C9 witness: eight digits followed by a line feed were rejected.
C9_Witness ==
    /\ verdict.done
    /\ Len(cep) = 9
    /\ IsEightDigits(SubSeq(cep, 1, 8))
    /\ cep[9] = 10
    /\ ~verdict.a
    /\ ~verdict.b

----------------------------------------------------------------------------
(* Properties of main() (SpecMain) *)

\* C8: in each process the trace pipeline is initialized exactly once before
\* the server accepts requests, and is shut down exactly once on every
\* shutdown an interrupt triggers, after the HTTP server has stopped, also
\* when the server's graceful shutdown does not finish in its grace period.
C8_TracerShutDownOnEveryInterrupt ==
    \A s \in Services :
        /\ proc[s].tpInit <= 1
        /\ (proc[s].srv = "listening" \/ proc[s].inflight > 0) => proc[s].tpInit = 1
        /\ proc[s].tpShutdown <= 1
        /\ proc[s].tpShutdown = 1 => (proc[s].srv # "listening" /\ proc[s].inflight = 0)
        /\ (proc[s].pc = "exited" /\ proc[s].signalled) => proc[s].tpShutdown = 1


----------------------------------------------------------------------------
(* Concurrent requests (SpecConc): the handlers of several requests run
   interleaved, each on its own goroutine, in one process per service *)

\* Requests in flight at the same time.
MaxConcurrent == 2

ConcRequests == 1..MaxConcurrent

\* What the clients send and the collaborators answer in SpecConc.
ConcInbound ==
    {Request("POST", CepBody(JString(CepValid)), NoCtx),
     Request("POST", CepBody(JString(CepShort)), NoCtx),
     Request("GET", CepBody(JString(CepValid)), NoCtx)}

ConcLookupAnswers ==
    {TransportError,
     Answer(200, TRUE, ViaCEPBody(JString(StrTrue), JAbsent)),
     Answer(200, TRUE, ViaCEPBody(JAbsent, JString(CityRio)))}

ConcWeatherAnswers ==
    {Answer(401, TRUE, WeatherBody(JNumber(2500))),
     Answer(200, TRUE, WeatherBody(JNumber(2500)))}

InitConc ==
    /\ cfg \in {e \in Environments : e.apiKey = "key" /\ ServiceBURLParses(e)}
    /\ inbound = [r \in ConcRequests |-> NoInbound]
    /\ apc = [r \in ConcRequests |-> "idle"]
    /\ aOut = [r \in ConcRequests |-> NoResp]
    /\ fwd = [r \in ConcRequests |-> NoReq]
    /\ bpc = [r \in ConcRequests |-> "idle"]
    /\ bIn = [r \in ConcRequests |-> NoReq]
    /\ bOut = [r \in ConcRequests |-> NoResp]
    /\ got = [r \in ConcRequests |-> NoAnswers]
    /\ calls = [r \in ConcRequests |-> <<>>]
    /\ spans = {}
    /\ cep = <<>>
    /\ verdict = [a |-> FALSE, b |-> FALSE, done |-> FALSE]
    /\ proc = [s \in Services |-> Serving]

\* The steps of the pipeline, taken by any of the requests in flight.
NextConc ==
    \E r \in ConcRequests :
        \/ ClientCallsEdge(r) /\ inbound'[r].req \in ConcInbound
        \/ ClientCallsOrchestration(r) /\ inbound'[r].req \in ConcInbound
        \/ OrchestrationReceives(r)
        \/ LookupReturns(r) /\ got'[r].lookup \in ConcLookupAnswers
        \/ WeatherReturns(r) /\ got'[r].weather \in ConcWeatherAnswers
        \/ ForwardReturns(r)

SpecConc == InitConc /\ [][NextConc]_vars


\* The response handleWeather gives to req when it is served alone and the
\* collaborators answer as recorded in answers; no response as long as an
\* answer it waits for is missing.
AloneOrchestration(env, req, answers) ==
    LET first == handleWeather(env, 0, req)
        second == handleWeatherAfterLookup(env, 0, req, answers.lookup)
    IN  IF first.done THEN first.out
        ELSE IF answers.lookup = NoAnswer THEN NoResp
        ELSE IF second.done THEN second.out
        ELSE IF answers.weather = NoAnswer THEN NoResp
        ELSE handleWeatherAfterWeather(answers.lookup, answers.weather).out

\* The response handleCEP gives to req when it is served alone, service-b
\* serves the forwarded request alone, and the hop between them ends as
\* recorded (transport error, or a response read completely or not).
AloneEdge(env, req, answers) ==
    LET first == handleCEP(env, 0, req)
        forwarded == Request("POST", MarshalCEPRequest(DecodeCEPRequest(req.body)), NoCtx)
        back == AloneOrchestration(env, forwarded, answers)
    IN  IF first.done THEN first.out
        ELSE IF answers.relay = NoAnswer THEN NoResp
        ELSE IF answers.relay.t = "transport"
        THEN handleCEPResponse(TransportError, forwarded).out
        ELSE handleCEPResponse(Answer(back.status, answers.relay.readOk, back.body),
                               forwarded).out

\* How the hop from service-a to service-b ended, without what it carried.
RelayOutcome(ans) == IF ans.t = "response" THEN <<ans.t, ans.readOk>> ELSE <<ans.t, TRUE>>

\* Requests p and q have the same inputs and got the same collaborator
\* answers.
SameInputs(p, q) ==
    /\ inbound[p].to = inbound[q].to
    /\ inbound[p].req.t = "request"
    /\ inbound[q].req.t = "request"
    /\ inbound[p].req.method = inbound[q].req.method
    /\ inbound[p].req.body = inbound[q].req.body
    /\ got[p].lookup = got[q].lookup
    /\ got[p].weather = got[q].weather
    /\ RelayOutcome(got[p].relay) = RelayOutcome(got[q].relay)

\* Every response is the one the request gets when served alone, and equal
\* inputs give equal responses.
ResponsesDependOnOwnInputs ==
    /\ \A r \in ConcRequests :
        /\ bpc[r] = "done" => bOut[r] = AloneOrchestration(cfg, bIn[r], got[r])
        /\ apc[r] = "done" => aOut[r] = AloneEdge(cfg, inbound[r].req, got[r])
    /\ \A p, q \in ConcRequests :
        SameInputs(p, q) =>
            /\ (apc[p] = "done" /\ apc[q] = "done") => aOut[p] = aOut[q]
            /\ (bpc[p] = "done" /\ bpc[q] = "done") => bOut[p] = bOut[q]

\* The per-request state of r.
RequestState(r) ==
    <<inbound[r], apc[r], aOut[r], fwd[r], bpc[r], bIn[r], bOut[r], got[r], calls[r]>>

\* A step touches the state of one request at most and leaves the
\* environment alone.
StepTouchesOneRequest ==
    /\ cfg' = cfg
    /\ \A p, q \in ConcRequests :
        (p # q /\ RequestState(p)' # RequestState(p)) => RequestState(q)' = RequestState(q)

----------------------------------------------------------------------------
(* Properties of concurrent requests (SpecConc) *)

\* C11 as stated: under any interleaving the response to a request is a
\* function of its own method and body and of the collaborator answers it
\* got, requests with equal inputs and answers get equal responses, and the
\* handlers write no process-wide state while serving.
C11_NoProcessWideWrites ==
    /\ []ResponsesDependOnOwnInputs
    /\ [][StepTouchesOneRequest /\ spans' = spans]_vars

\* C11 amended: the same, except that the handlers do write one piece of
\* process-wide state, the spans they hand to the trace pipeline, which no
\* response depends on.
C11_ResponsesIndependentOfOtherRequests ==
    /\ []ResponsesDependOnOwnInputs
    /\ [][StepTouchesOneRequest]_vars

\* C11 witness: two requests with the same body went through service-a with
\* the same collaborator answers and both were answered 200.
C11_Witness ==
    \E p, q \in ConcRequests :
        /\ p # q
        /\ SameInputs(p, q)
        /\ inbound[p].to = "a"
        /\ apc[p] = "done" /\ apc[q] = "done"
        /\ aOut[p].status = 200 /\ aOut[q].status = 200
        /\ aOut[p] = aOut[q]

====
